---------------------------- MODULE Spec2Model ----------------------------
(***************************************************************************)
(* The autonomous processing pipeline of the AutoMinds email assistant:    *)
(* the per-user scan cycle (EmailAgent.run_cycle), the processed-id store   *)
(* (_load_processed_ids / _save_processed_ids) and the hybrid              *)
(* classification router (EmailAgent._analyze_emails, analyze_emails,      *)
(* quick_classify), the reply drafter (draft_reply) and the Fleet Runner   *)
(* (run_agent_for_all_users, run_agent_for_user, POST /agent/run-now).     *)
(*                                                                         *)
(* Nine specifications share the definitions below:                        *)
(*   Spec        repeated scan cycles of one user against the store        *)
(*   SpecCycle   one scan cycle over every response of the collaborators   *)
(*   SpecRouter  the classification router on every bounded batch          *)
(*   SpecDraft   one call of draft_reply over every model response         *)
(*   SpecStore   loads and saves of the store with either backend failing  *)
(*   SpecProcess one cycle over one message of any classification          *)
(*   SpecFleet   the coroutines that run cycles on the server's event loop *)
(*   SpecScenario one cycle over three unread messages of one account      *)
(*   SpecAudit   the Audit Log of one user over successive cycles          *)
(***************************************************************************)
EXTENDS Integers, Sequences, FiniteSets, TLC

(***************************************************************************)
(* Bounds of the model.                                                    *)
(***************************************************************************)
\* Most messages one fetch of one account returns (settings.max_emails_per_fetch
\* is 50 in the source).
MaxFetch == 2
\* Most unread messages the mailboxes of SpecCycle list together.
MaxBatch == 3
\* Most ids a persisted ProcessedSet keeps (5000 in the source, lines 92, 104, 111).
ProcessedCap == 2
\* Longest batch handed to the router under SpecRouter.
MaxRouterBatch == 3
\* Number of scan cycles one behaviour of Spec starts.
MaxCycles == 2
\* Most users list_all_users returns under SpecFleet.
MaxFleetUsers == 2
\* Largest max_iterations draft_reply is called with (its default is 2).
MaxIterations == 2
\* Number of cycles one behaviour of SpecAudit logs.
MaxLogCycles == 3
\* Clock readings of SpecAudit: the clock goes from 0 to MaxTicks, and
\* TicksPerSecond readings fall into one second (datetime.utcnow has a
\* resolution of a microsecond).
MaxTicks == 3
TicksPerSecond == 2

MsgIds == {"m1", "m2", "m3"}
Accounts == {"a1", "a2"}

\* Python's None.
None == "None"

\* models.EmailPriority, models.EmailCategory
EmailPriority == {"urgent", "high", "normal", "low"}
EmailCategory == {"action_required", "waiting_on", "fyi", "newsletter",
                  "promotional", "personal", "spam"}

\* A value the model sends that is no member of the enum: EmailPriority(v) and
\* EmailCategory(v) raise ValueError on it.
BadValue == "bad"

\* models.EmailMessage as the Message Source builds it: the AI fields unset.
\* src is the account the message was fetched from (EmailMessage.provider in the
\* source identifies it only by provider).
EmailMessage(id, src) ==
    [id |-> id, src |-> src, priority |-> None, category |-> None, is_vip |-> FALSE]

EmailValues ==
    [id : MsgIds, src : Accounts, priority : EmailPriority \cup {None},
     category : EmailCategory \cup {None}, is_vip : BOOLEAN]

Ids(emails) == [i \in 1..Len(emails) |-> emails[i].id]
IdSet(emails) == {emails[i].id : i \in 1..Len(emails)}
SeqSet(s) == {s[i] : i \in 1..Len(s)}

\* Sequences over S of length at most n.
SeqsUpTo(S, n) == UNION {[1..k -> S] : k \in 0..n}

(***************************************************************************)
(* Model responses.                                                        *)
(***************************************************************************)
\* One entry of the triage response: qr.get("is_spam", False) and
\* qr.get("is_newsletter", False). A message with no entry reads the same as
\* an entry with both flags false (quick_map.get(email.id, {})).
QuickEntry == [is_spam : BOOLEAN, is_newsletter : BOOLEAN]
NoEntry == [is_spam |-> FALSE, is_newsletter |-> FALSE]

\* What the triage call comes to:
\*   "ok"        the response parses to a list of objects that all carry an id
\*   "failed"    _call_haiku raises or the text is no JSON: quick_classify
\*               catches it and returns []
\*   "malformed" the text parses, but not to a list of objects with an id
\*               (an entry without "id", a bare object, a number): building
\*               quick_map raises in _analyze_emails; map holds what the
\*               well-formed entries of that response say
QuickOutcomes ==
    [kind : {"ok", "malformed"}, map : [MsgIds -> QuickEntry]]
      \cup {[kind |-> "failed", map |-> [m \in MsgIds |-> NoEntry]]}

\* One object of the deep-analysis response, by id (results_by_id keeps the last
\* object of an id). Missing: no object of that id.
Missing == [priority |-> "missing", category |-> "missing", is_vip |-> FALSE]

\* What the deep-analysis call comes to:
\*   "ok"     the response parses to a list of objects with an id
\*   "raise"  _call_opus raises, the text is no JSON, or it is not such a list:
\*            analyze_emails catches it before it touched any message
DeepOutcomesOver(E) ==
    [kind : {"ok"}, res : [MsgIds -> E \cup {Missing}]]
      \cup {[kind |-> "raise", res |-> [m \in MsgIds |-> Missing]]}

(***************************************************************************)
(* email_brain.analyze_emails                                              *)
(***************************************************************************)
\* A lookup that hands back the absent result as it is, without the defaults.
ResultWithoutDefaults(d, id) == d.res[id]

\* result.get("priority", "normal") etc. of lines 214-219 for one message.
ResultFor(d, id) ==
    IF d.res[id] = Missing
    THEN [priority |-> "normal", category |-> "fyi", is_vip |-> FALSE]
    ELSE d.res[id]

\* Lines 215-219 on one message: all three assignments.
ApplyResult(e, r) ==
    [e EXCEPT !.priority = r.priority, !.category = r.category, !.is_vip = r.is_vip]

\* The first message of the batch whose result makes an enum constructor raise
\* (Len + 1 when none does).
FirstBad(emails, d) ==
    LET bad == {i \in 1..Len(emails) :
                  \/ ResultFor(d, emails[i].id).priority = BadValue
                  \/ ResultFor(d, emails[i].id).category = BadValue}
    IN IF bad = {} THEN Len(emails) + 1
       ELSE CHOOSE i \in bad : \A j \in bad : i <= j

\* analyze_emails(emails): the messages after the call. The loop of lines 213-219
\* mutates the messages in order and stops at the first ValueError, which the
\* handler of line 235 swallows; the messages before it keep their analysis.
analyze_emails(emails, d) ==
    IF emails = <<>> THEN <<>>
    ELSE IF d.kind = "raise" THEN emails
    ELSE LET fb == FirstBad(emails, d)
         IN [i \in 1..Len(emails) |->
               LET r == ResultFor(d, emails[i].id)
               IN IF i < fb THEN ApplyResult(emails[i], r)
                  ELSE IF i = fb /\ r.priority # BadValue
                       THEN [emails[i] EXCEPT !.priority = r.priority]
                       ELSE emails[i]]

(***************************************************************************)
(* EmailAgent._analyze_emails                                              *)
(***************************************************************************)
\* quick_map of line 343 when it can be built.
DefaultQuickMap == [m \in MsgIds |-> NoEntry]
FailClosedQuickMap == [m \in MsgIds |-> [is_spam |-> TRUE, is_newsletter |-> FALSE]]

QuickMapFailClosed(q) == IF q.kind = "ok" THEN q.map ELSE FailClosedQuickMap
QuickMap(q) == IF q.kind = "ok" THEN q.map ELSE DefaultQuickMap

\* Lines 350 and 355: the message takes one of the two skip branches.
SkipsNothing(qr) == FALSE
Skippable(qr) == qr.is_spam \/ qr.is_newsletter

\* Lines 350-359: the fields a skip branch sets.
Finalize(e, qr) ==
    IF qr.is_spam
    THEN [e EXCEPT !.category = "spam", !.priority = "low"]
    ELSE [e EXCEPT !.category = "newsletter", !.priority = "low"]

\* Line 375.
ReturnAnalyzedOnly(analyzed, skippable) == analyzed
RouterReturn(analyzed, skippable) == analyzed \o skippable

\* _analyze_emails(emails): the returned list, with the batches given to the
\* deep-analysis call (deepCalls), the ids finalized by triage (skipped) and
\* whether the call raised.
AnalyzeEmails(emails, q, d) ==
    IF emails = <<>>
    THEN [emails |-> emails, deepCalls |-> <<>>, skipped |-> <<>>, raised |-> FALSE]
    ELSE IF q.kind = "malformed"
    THEN \* line 343 raises: the handler of line 377 analyzes the whole batch
         [emails |-> analyze_emails(emails, d), deepCalls |-> <<Ids(emails)>>,
          skipped |-> <<>>, raised |-> FALSE]
    ELSE LET qm == QuickMap(q)
             marked == [i \in 1..Len(emails) |->
                          IF Skippable(qm[emails[i].id])
                          THEN Finalize(emails[i], qm[emails[i].id])
                          ELSE emails[i]]
             worth_analyzing ==
                 SelectSeq(marked, LAMBDA e : ~Skippable(qm[e.id]))
             skippable == SelectSeq(marked, LAMBDA e : Skippable(qm[e.id]))
             analyzed == analyze_emails(worth_analyzing, d)
         IN [emails |-> RouterReturn(analyzed, skippable),
             deepCalls |-> IF worth_analyzing # <<>>
                           THEN <<Ids(worth_analyzing)>> ELSE <<>>,
             skipped |-> Ids(skippable), raised |-> FALSE]

(***************************************************************************)
(* The user and the accounts (user_store.get_user, models.User).           *)
(***************************************************************************)
\* ConnectedAccount.provider of the two accounts of the model.
Provider(a) == IF a = "a1" THEN "gmail" ELSE "outlook"

\* The users a cycle can be started for: NoUser is an id get_user knows nothing
\* of; the others list connected_accounts in order with their is_active flags.
NoUser == [found |-> FALSE, accounts |-> <<>>]
UserWith(accts) == [found |-> TRUE, accounts |-> accts]
Acct(a, active) == [name |-> a, is_active |-> active]
Users ==
    {NoUser, UserWith(<<>>),
     UserWith(<<Acct("a1", FALSE)>>),
     UserWith(<<Acct("a1", TRUE)>>),
     UserWith(<<Acct("a1", TRUE), Acct("a2", TRUE)>>),
     UserWith(<<Acct("a2", TRUE), Acct("a1", FALSE)>>)}

ActiveAccounts(u) ==
    SelectSeq([i \in 1..Len(u.accounts) |-> u.accounts[i]],
              LAMBDA acct : acct.is_active)

\* EmailMessage.sender.email by message id, user.settings.auto_send_contacts,
\* and str.lower on the addresses of the model.
SenderOf(id) == IF id = "m1" THEN "Bob@x.io" ELSE "eve@y.io"
Lower(addr) == IF addr \in {"Bob@x.io", "BOB@X.IO"} THEN "bob@x.io" ELSE addr
auto_send_contacts == {"BOB@X.IO"}

\* _get_primary_account (lines 604-615): the first active Gmail account, else
\* the first active account, else None.
PrimaryAccount(u) ==
    LET act == ActiveAccounts(u)
        gm == SelectSeq(act, LAMBDA acct : Provider(acct.name) = "gmail")
    IN IF gm # <<>> THEN gm[1].name
       ELSE IF act # <<>> THEN act[1].name ELSE None

(***************************************************************************)
(* The Idempotency Store (_load_processed_ids, _save_processed_ids).       *)
(***************************************************************************)
\* A backend's record of one user: the agent_state row, or the
\* <user>_processed.json file. The stored list is never longer than
\* ProcessedCap (only _save_processed_ids writes it), so ids[-5000:] of the
\* load keeps all of it and the list is kept here as the set load returns.
NoRecord == [exists |-> FALSE, ids |-> {}]
Record(ids) == [exists |-> TRUE, ids |-> ids]

Min(a, b) == IF a < b THEN a ELSE b

\* list(ids)[-5000:] of line 111: ids is a Python set of strings, whose
\* iteration order is fixed by the hash seed of the process, so the slice
\* keeps ProcessedCap ids of the set, whichever they are.
KeepsAll(ids) == {ids}
Trimmed(ids) ==
    {t \in SUBSET ids : Cardinality(t) = Min(ProcessedCap, Cardinality(ids))}

\* _load_processed_ids: the set returned when the read is served
\*   "remote"    by the agent_state select (set() when there is no row)
\*   "disk"      by the file, the select having raised or no client being set
\*   "diskfail"  by neither: the file is unreadable too (line 105)
LoadOutcomes == {"remote", "disk", "diskfail"}
load_processed_ids(rem, dsk, how) ==
    CASE how = "remote" -> rem.ids
      [] how = "disk" -> dsk.ids
      [] OTHER -> {}

\* _save_processed_ids: "remote" the upsert succeeds, "disk" it raises (or there
\* is no client) and the file is written, "raise" the file cannot be written
\* either and the OSError of line 126 or 128 leaves the function.
SaveOutcomes == {"remote", "disk", "raise"}

\* The row after _save_processed_ids tried to write the list t: only a
\* successful upsert changes it.
RemoteAfterSave(how, t, rem) == IF how = "remote" THEN Record(t) ELSE rem

\* A save that wrote the file whether or not the upsert succeeded.
DiskWrittenToo(how, t, dsk) ==
    CASE how \in {"remote", "disk"} -> {Record(t)}
      [] OTHER -> {dsk, Record({})}

\* The files _save_processed_ids can leave: the return of line 121 comes before
\* any use of the file; a failed local write leaves the file as it was
\* (_ensure_dirs or open raised) or cut short (json.dump raised), which a later
\* load reads as no ids.
DisksAfterSave(how, t, dsk) ==
    CASE how = "remote" -> {dsk}
      [] how = "disk" -> {Record(t)}
      [] OTHER -> {dsk, Record({})}

(***************************************************************************)
(* EmailAgent._fetch_emails_for_account                                    *)
(***************************************************************************)
\* Line 291: the messages of raw whose id is not in _processed_ids.
NoFilter(raw, processed) == raw
NewEmails(raw, processed) == SelectSeq(raw, LAMBDA em : em.id \notin processed)

\* What one fetch returns for account a: the unread messages of the mailbox, or
\* [] when the provider call raised (lines 286-288).
FetchRaw(unreadIds, a, ok) ==
    IF ok THEN [i \in 1..Len(unreadIds) |-> EmailMessage(unreadIds[i], a)] ELSE <<>>

(***************************************************************************)
(* EmailAgent._process_email and the three dispatch helpers.               *)
(***************************************************************************)
\* What the collaborators do for one message:
\*   label     add_label returns True ("ok"), returns False ("false") or raises
\*   vip       the second add_label, of the AutoMinds/VIP label
\*   task      create_task_from_email returns the created task ("ok"), returns {}
\*             after swallowing its own failure ("empty"), or the try block of
\*             line 493 raises
\*   draft     the draft is generated and its file written ("ok") or the block
\*             of line 533 raises
\*   exc       an exception leaves _process_email itself: "start" before the
\*             first dispatch, "end" after the last one, "none" not at all
ProcOutcomes ==
    [label : {"ok", "false", "raise"}, vip : {"ok", "raise"},
     task : {"ok", "empty", "raise"}, draft : {"ok", "raise"},
     exc : {"none", "start", "end"}]

Call(idx, kind, id, account, res) ==
    [idx |-> idx, kind |-> kind, id |-> id, account |-> account, res |-> res]

\* CATEGORY_LABELS.get(email.category): every category has a label, None has none.
HasLabel(category) == category \in EmailCategory

\* _label_email (lines 427-458): the sub-action it returns (or the empty list for
\* None) and the actuator calls it made.
LabelEmail(e, account, idx, o) ==
    IF ~HasLabel(e.category) THEN [sub |-> <<>>, calls |-> {}]
    ELSE IF Provider(account) = "gmail"
    THEN IF o.label = "ok"
         THEN IF e.is_vip
              THEN [sub |-> IF o.vip = "ok" THEN <<"labeled">> ELSE <<>>,
                    calls |-> {Call(idx, "label", e.id, account, "ok"),
                               Call(idx, "vip_label", e.id, account, o.vip)}]
              ELSE [sub |-> <<"labeled">>,
                    calls |-> {Call(idx, "label", e.id, account, "ok")}]
         ELSE [sub |-> <<>>, calls |-> {Call(idx, "label", e.id, account, o.label)}]
    ELSE \* outlook_provider has no add_category: the import raises ImportError and
         \* success is False (lines 439-444)
         [sub |-> <<>>, calls |-> {}]

\* Lines 398-401.
NeedsTaskByCategoryOnly(e) == e.category \in {"action_required", "waiting_on"}
NeedsTask(e) == e.category \in {"action_required", "waiting_on"} \/ e.is_vip

\* _create_task_for_email (lines 462-511), called against the primary account.
CreateTask(e, primary, idx, o) ==
    [sub |-> IF o.task = "raise" THEN <<>> ELSE <<"task_created">>,
     calls |-> {Call(idx, "task", e.id, primary, o.task)}]

\* A sender compared with the allowlist as written, without str.lower.
ShouldAutoDraftExact(e) ==
    /\ e.category = "action_required"
    /\ SenderOf(e.id) \in auto_send_contacts

\* _should_auto_draft (lines 515-527).
ShouldAutoDraft(e) ==
    /\ e.category = "action_required"
    /\ Lower(SenderOf(e.id)) \in {Lower(c) : c \in auto_send_contacts}

\* models.DraftStatus, and the member draft_reply gives every EmailDraft it
\* returns, the generated one and the one that reports an error.
DraftStatus == {"pending", "approved", "sent", "rejected", "auto_sent"}
PENDING == "pending"

\* The call of the Draft Engine for one message, with the status of the draft
\* file it left in data/drafts (None when the block raised before the write).
DraftCall(idx, id, account, res, status) ==
    [idx |-> idx, kind |-> "draft", id |-> id, account |-> account, res |-> res,
     status |-> status]

\* An auto-draft that sends the reply to an allowlisted sender and files it as
\* auto_sent.
AutoDraftAndSend(e, account, idx, o) ==
    [sub |-> IF o.draft = "ok" THEN <<"draft_created">> ELSE <<>>,
     calls |-> IF o.draft = "ok"
               THEN {DraftCall(idx, e.id, account, "ok", "auto_sent"),
                     Call(idx, "send", e.id, account, "ok")}
               ELSE {DraftCall(idx, e.id, account, o.draft, None)}]

\* _auto_draft_reply (lines 529-562): draft_reply, then the file written with the
\* draft as draft_reply returned it.
AutoDraft(e, account, idx, o) ==
    [sub |-> IF o.draft = "ok" THEN <<"draft_created">> ELSE <<>>,
     calls |-> {DraftCall(idx, e.id, account, o.draft,
                          IF o.draft = "ok" THEN PENDING ELSE None)}]

Nothing == [sub |-> <<>>, calls |-> {}]

\* The dict of lines 412-423.
ActionRecord(e, idx, subs) ==
    [email_id |-> e.id, idx |-> idx,
     priority |-> IF e.priority = None THEN "unknown" ELSE e.priority,
     category |-> IF e.category = None THEN "unknown" ELSE e.category,
     is_vip |-> e.is_vip, actions |-> subs]

\* The except clauses of lines 456-458, 509-511 and 560-562: an exception of an
\* actuator call never leaves the helper that made the call.
HelperReraises(cs) == \E c \in cs : c.res = "raise"
HelperRaises(cs) == FALSE

\* _process_email(email, account) for the message at position idx of the batch:
\* whether it raised, the dict it returned and the actuator calls it made.
process_email(e, account, primary, idx, o) ==
    IF o.exc = "start" THEN [raised |-> TRUE, action |-> None, calls |-> {}]
    ELSE LET l == LabelEmail(e, account, idx, o)
             t == IF NeedsTask(e) THEN CreateTask(e, primary, idx, o) ELSE Nothing
             r == IF ShouldAutoDraft(e) THEN AutoDraft(e, account, idx, o) ELSE Nothing
             calls == l.calls \cup t.calls \cup r.calls
         IN IF o.exc = "end" \/ HelperRaises(calls)
            THEN [raised |-> TRUE, action |-> None, calls |-> calls]
            ELSE [raised |-> FALSE,
                  action |-> ActionRecord(e, idx, l.sub \o t.sub \o r.sub),
                  calls |-> calls]

\* The except branch of lines 213-219.
ErrorEntry(e, idx) == [email_id |-> e.id, idx |-> idx]

\* The position the loop of line 207 goes on with after the except branch, in a
\* batch of n messages: the handler is inside the loop body.
StopsAtRaise(i, n) == n + 1
AfterRaise(i, n) == i + 1

\* zip of lines 199 and 203: position by position, as long as the shorter list.
Zip(emails, accounts) ==
    [i \in 1..Min(Len(emails), Len(accounts)) |->
        [email |-> emails[i], account |-> accounts[i]]]

(***************************************************************************)
(* State.                                                                  *)
(***************************************************************************)
VARIABLES
    \* what outlives a cycle
    user,       \* the User record get_user returns for the id of the cycles
    unread,     \* per account, the ids of the unread messages the provider lists
    remote,     \* the agent_state row of the user (Supabase)
    disk,       \* the <user>_processed.json file of the user
    cycles,     \* number of cycles started so far
    prevActed,  \* ids with an ActionRecord in the cycle before the current one
    \* one EmailAgent and its run_cycle
    pc,         \* position of run_cycle
    loaded,     \* what _load_processed_ids returned to this cycle
    processed_ids,          \* self._processed_ids
    all_emails,             \* all_emails: pairs (email, account)
    idx,                    \* position of the loop of line 207 in all_emails
    newly_processed_ids,    \* newly_processed_ids
    actions_taken,          \* self.actions_taken
    errors,                 \* self.errors
    calls,      \* actuator calls made so far in this cycle
    classified, \* ids handed to the router in this cycle, and its deep batches
    saved,      \* what _save_processed_ids wrote in this cycle, and where
    logged,     \* where _log_actions wrote the entry of this cycle
    \* SpecRouter
    rpc,        \* "in" before the call of _analyze_emails, "out" after
    rIn,        \* the batch handed to _analyze_emails
    rQuick,     \* what the triage call comes to
    rDeep,      \* what the deep-analysis call comes to
    rOut,       \* what AnalyzeEmails gave
    \* SpecDraft: one call of email_brain.draft_reply
    dpc,        \* position of draft_reply
    dIn,        \* its arguments: the message (id, subject) and max_iterations
    draft_body, \* draft_body
    iteration,  \* iteration of the loop of line 469
    opus_trace, \* what each _call_opus of the call came to, in order
    eval_trace, \* what each evaluator call came to, in order
    safety_raw, \* what the model call of _run_safety_check came to
    draft,      \* the EmailDraft returned
    \* SpecStore: loads and saves of one user's ProcessedSet
    sMem,       \* the set the caller holds (self._processed_ids)
    sOrder,     \* the ids merged so far, in the order they were merged
    sOp,        \* the last operation: which, how it was served, what it returned
    sFailed,    \* whether a backend has failed in some operation so far
    \* SpecFleet: the coroutines of the server's event loop that run cycles
    fUsers,     \* what list_all_users returns: per user id, its accounts
    loop,       \* the coroutine the event loop is running, or None
    tk,         \* per coroutine: its position and the locals of its function
    fStore,     \* per user id, the ProcessedSet the store holds
    fEver,      \* per user id, the ids a completed save has written
    \* SpecAudit: the Audit Log of one user
    now,         \* the reading of the clock
    cycle_no,    \* number of cycles started so far
    cycle_start, \* self.cycle_start of the agents that are running: one or none
    agent_logs,  \* the rows of the agent_logs table, in insertion order
    log_files    \* per file-name timestamp, the content of the log file

storeVars == <<user, unread, remote, disk, cycles, prevActed>>
agentVars == <<pc, loaded, processed_ids, all_emails, idx, newly_processed_ids,
               actions_taken, errors, calls, classified, saved, logged>>
routerVars == <<rpc, rIn, rQuick, rDeep, rOut>>
draftVars == <<dpc, dIn, draft_body, iteration, opus_trace, eval_trace, safety_raw, draft>>
opVars == <<sMem, sOrder, sOp, sFailed>>
fleetVars == <<fUsers, loop, tk, fStore, fEver>>
auditVars == <<now, cycle_no, cycle_start, agent_logs, log_files>>
unitVars == <<routerVars, draftVars, opVars, fleetVars, auditVars>>
vars == <<storeVars, agentVars, unitVars>>

(***************************************************************************)
(* Scan cycles of one user (EmailAgent.run_cycle, lines 158-231).          *)
(* run_cycle holds no await, so a cycle runs from its first line to its    *)
(* return without another coroutine in between; pc follows its steps.      *)
(*   Spec       up to MaxCycles cycles in a row against the store, every   *)
(*              user and mailbox, the responses of LeanQuick, LeanDeep,    *)
(*              LeanProc                                                   *)
(*   SpecCycle  one cycle of a user with two active accounts, the          *)
(*              responses of FullQuick, FullDeep, FullProc                 *)
(***************************************************************************)
NoOut == [emails |-> <<>>, deepCalls |-> <<>>, skipped |-> <<>>, raised |-> FALSE]
NoDeep == [kind |-> "raise", res |-> [m \in MsgIds |-> Missing]]

\* The messages each mailbox can hold: id m2 exists in both mailboxes (provider
\* ids are unique within one mailbox only). A listing returns distinct ids in
\* mailbox order.
Mailbox(a) == IF a = "a1" THEN {"m1", "m2"} ELSE {"m2", "m3"}
Listing == <<"m1", "m2", "m3">>
ListingOf(S) == SelectSeq(Listing, LAMBDA m : m \in S)
Inboxes ==
    {f \in [Accounts -> {ListingOf(S) : S \in SUBSET MsgIds}] :
        \A a \in Accounts : SeqSet(f[a]) \subseteq Mailbox(a) /\ Len(f[a]) <= MaxFetch}

ActiveNames(u) ==
    {u.accounts[i].name : i \in {j \in 1..Len(u.accounts) : u.accounts[j].is_active}}

\* The result objects a cycle draws from.
ActionNoVip == [priority |-> "high", category |-> "action_required", is_vip |-> FALSE]
ActionVip == [priority |-> "urgent", category |-> "action_required", is_vip |-> TRUE]

\* Responses of Spec: triage fails or flags nothing; deep analysis raises or
\* gives every message the same result; a message is processed with every
\* actuator succeeding, or an exception leaves _process_email at once.
LeanQuick == {q \in QuickOutcomes : q.map = DefaultQuickMap /\ q.kind # "malformed"}
LeanDeep == {d \in DeepOutcomesOver({ActionNoVip}) : d.kind = "raise" \/ Missing \notin {d.res[m] : m \in MsgIds}}
LeanProc ==
    {o \in ProcOutcomes : /\ o.label = "ok" /\ o.vip = "ok" /\ o.task = "ok"
                          /\ o.draft = "ok" /\ o.exc \in {"none", "start"}}

\* Responses of SpecCycle: triage flags spam or nothing, is malformed or fails;
\* deep analysis raises or answers each id with one of two results; one
\* collaborator at most fails per message.
FullQuick == {q \in QuickOutcomes : \A m \in MsgIds : ~q.map[m].is_newsletter}
FullDeep == {d \in DeepOutcomesOver({ActionNoVip, ActionVip}) :
               d.kind = "raise" \/ Missing \notin {d.res[m] : m \in MsgIds}}
FullProc ==
    {o \in ProcOutcomes :
        /\ Cardinality({k \in {"label", "vip", "task", "draft", "exc"} :
              o[k] \notin {"ok", "none"}}) <= 1}

NoSave == [how |-> "none", ids |-> {}]
NoClassified == [ids |-> {}, deepCalls |-> <<>>]

Terminal == {"idle", "returned", "raised", "not_found", "skipped"}

\* A fresh EmailAgent (lines 148-154) at position p.
FreshAgent(p) ==
    /\ pc' = p
    /\ loaded' = {}
    /\ processed_ids' = {}
    /\ all_emails' = <<>>
    /\ idx' = 1
    /\ newly_processed_ids' = <<>>
    /\ actions_taken' = <<>>
    /\ errors' = <<>>
    /\ calls' = {}
    /\ classified' = NoClassified
    /\ saved' = NoSave
    /\ logged' = "none"

AgentIdle ==
    /\ pc = "idle"
    /\ loaded = {}
    /\ processed_ids = {}
    /\ all_emails = <<>>
    /\ idx = 1
    /\ newly_processed_ids = <<>>
    /\ actions_taken = <<>>
    /\ errors = <<>>
    /\ calls = {}
    /\ classified = NoClassified
    /\ saved = NoSave
    /\ logged = "none"

CycleIdle ==
    /\ user = NoUser
    /\ unread = [a \in Accounts |-> <<>>]
    /\ remote = NoRecord
    /\ disk = NoRecord
    /\ cycles = 0
    /\ prevActed = {}
    /\ AgentIdle

\* draft_reply not called: no argument, no local, nothing returned.
NoDraftIn == [id |-> None, subject |-> <<>>, max_iterations |-> 0]
NoBody == [kind |-> "none", version |-> 0]
NoSafety == [kind |-> "none", safe |-> "missing", flags |-> "missing", severity |-> "missing"]
NoDraft == [original_email_id |-> None, to |-> None, subject |-> <<>>, body |-> NoBody,
            status |-> None, safety_flags |-> "empty", safety_severity |-> "none"]
DraftIdle ==
    /\ dpc = "idle"
    /\ dIn = NoDraftIn
    /\ draft_body = NoBody
    /\ iteration = 0
    /\ opus_trace = <<>>
    /\ eval_trace = <<>>
    /\ safety_raw = NoSafety
    /\ draft = NoDraft

\* No load and no save of the store made on its own.
NoOp == [op |-> "none", how |-> "none", added |-> {}, ret |-> {}, raised |-> FALSE]
StoreOpIdle ==
    /\ sMem = {}
    /\ sOrder = <<>>
    /\ sOp = NoOp
    /\ sFailed = FALSE

\* The coroutines that run cycles: the scheduled job (schedule_agent, lines
\* 756-763) and the two branches of POST /agent/run-now (server.py lines
\* 1005-1017).
Tasks == {"sched", "now_all", "now_user"}
FleetIds == 1..MaxFleetUsers
NoCycle == [user |-> 0, loaded |-> {}]
NoSummary == [how |-> "none", users_processed |-> 0, failures |-> 0]
NoTask ==
    [pc |-> "unfired", parked |-> FALSE, target |-> 0, idx |-> 1, attempts |-> <<>>,
     results |-> <<>>, failures |-> 0, cyc |-> NoCycle, summary |-> NoSummary]

\* No trigger has fired and no request has arrived.
FleetIdle ==
    /\ fUsers = <<>>
    /\ loop = None
    /\ tk = [t \in Tasks |-> NoTask]
    /\ fStore = [u \in FleetIds |-> {}]
    /\ fEver = [u \in FleetIds |-> {}]

\* The content of a log file: no file of that name, the JSON of one entry, or
\* what an interrupted json.dump left of it. An entry is told from the others
\* by the ordinal of its cycle (cycle_start and cycle_end carry microseconds).
NoFile == [kind |-> "absent", cycle |-> 0, cycle_start |-> 0]
Torn == [kind |-> "torn", cycle |-> 0, cycle_start |-> 0]
LogEntry(n, t) == [kind |-> "entry", cycle |-> n, cycle_start |-> t]

\* cycle_start.strftime("%Y%m%d_%H%M%S") (line 592): the reading cut to the second.
Stamp(t) == t \div TicksPerSecond
Stamps == {Stamp(t) : t \in 0..MaxTicks}

\* No cycle has run and nothing was logged.
AuditIdle ==
    /\ now = 0
    /\ cycle_no = 0
    /\ cycle_start = <<>>
    /\ agent_logs = <<>>
    /\ log_files = [s \in Stamps |-> NoFile]

RouterIdle ==
    /\ rpc = "idle"
    /\ rIn = <<>>
    /\ rQuick = [kind |-> "failed", map |-> DefaultQuickMap]
    /\ rDeep = NoDeep
    /\ rOut = NoOut

\* A fresh deployment: no row, no file, no cycle run yet. Only the mailboxes of
\* active accounts are ever listed.
Init ==
    /\ RouterIdle
    /\ DraftIdle
    /\ StoreOpIdle
    /\ FleetIdle
    /\ AuditIdle
    /\ AgentIdle
    /\ user \in Users
    /\ unread \in Inboxes
    /\ \A a \in Accounts : a \notin ActiveNames(user) => unread[a] = <<>>
    /\ remote = NoRecord
    /\ disk = NoRecord
    /\ cycles = 0
    /\ prevActed = {}

\* One cycle of the user with both accounts active, whose mailboxes list at most
\* MaxBatch unread messages together; the store is fresh or holds what an
\* earlier cycle that processed m1 left in the row.
InitCycle ==
    /\ RouterIdle
    /\ DraftIdle
    /\ StoreOpIdle
    /\ FleetIdle
    /\ AuditIdle
    /\ AgentIdle
    /\ user = UserWith(<<Acct("a1", TRUE), Acct("a2", TRUE)>>)
    /\ unread \in Inboxes
    /\ Len(unread["a1"]) + Len(unread["a2"]) <= MaxBatch
    /\ remote \in {NoRecord, Record({"m1"})}
    /\ disk = NoRecord
    /\ cycles = 0
    /\ prevActed = {}

ActedIds == {actions_taken[i].email_id : i \in 1..Len(actions_taken)}

\* run_agent_for_user builds a new EmailAgent and calls run_cycle; n bounds the
\* number of cycles of a behaviour.
Begin(n) ==
    /\ pc \in Terminal
    /\ cycles < n
    /\ cycles' = cycles + 1
    /\ prevActed' = ActedIds
    /\ UNCHANGED <<user, unread, remote, disk, unitVars>>

\* Line 169 raises: _load_users of the JSON backend lets an OSError through.
StartLookupRaises(n) ==
    /\ Begin(n)
    /\ FreshAgent("raised")

\* Lines 170-172.
StartNotFound(n) ==
    /\ Begin(n)
    /\ ~user.found
    /\ FreshAgent("not_found")

\* Lines 174-176.
StartSkipped(n) ==
    /\ Begin(n)
    /\ user.found
    /\ user.accounts = <<>>
    /\ FreshAgent("skipped")

\* Lines 181-188: the pairs of every active account, in account order.
RECURSIVE FetchAll(_, _, _, _)
FetchAll(accts, unr, okf, processed) ==
    IF accts = <<>> THEN <<>>
    ELSE LET a == accts[1]
             fetched == IF a.is_active
                        THEN NewEmails(FetchRaw(unr[a.name], a.name, okf[a.name]), processed)
                        ELSE <<>>
         IN [i \in 1..Len(fetched) |-> [email |-> fetched[i], account |-> a.name]]
              \o FetchAll(Tail(accts), unr, okf, processed)

\* Lines 178-193: load the ProcessedSet, fetch every active account.
StartCycle(n) ==
    /\ Begin(n)
    /\ user.found
    /\ user.accounts # <<>>
    /\ \E how \in LoadOutcomes, okf \in [Accounts -> BOOLEAN] :
         LET ids == load_processed_ids(remote, disk, how)
             all == FetchAll(user.accounts, unread, okf, ids)
         IN /\ loaded' = ids
            /\ processed_ids' = ids
            /\ all_emails' = all
            /\ pc' = IF all = <<>> THEN "log" ELSE "analyze"
    /\ idx' = 1
    /\ newly_processed_ids' = <<>>
    /\ actions_taken' = <<>>
    /\ errors' = <<>>
    /\ calls' = {}
    /\ classified' = NoClassified
    /\ saved' = NoSave
    /\ logged' = "none"

\* Lines 195-203: enrichment, the router, and the two re-pairings. Enrichment
\* changes no field the cycle reads: enrich_email_with_contact assigns items of
\* an EmailMessage, which raises TypeError, caught at line 319.
Analyze(Q, D) ==
    /\ pc = "analyze"
    /\ LET emails_only == [i \in 1..Len(all_emails) |-> all_emails[i].email]
           accts == [i \in 1..Len(all_emails) |-> all_emails[i].account]
       IN \E r \in {AnalyzeEmails(emails_only, q, d) : q \in Q, d \in D} :
            /\ all_emails' = Zip(r.emails, accts)
            /\ classified' = [ids |-> IdSet(emails_only), deepCalls |-> r.deepCalls]
    /\ pc' = "process"
    /\ idx' = 1
    /\ UNCHANGED <<storeVars, unitVars, loaded, processed_ids, newly_processed_ids,
                   actions_taken, errors, calls, saved, logged>>

\* One turn of the loop of lines 207-220.
ProcessOne(O) ==
    /\ pc = "process"
    /\ idx <= Len(all_emails)
    /\ LET e == all_emails[idx].email
       IN \E res \in {process_email(e, all_emails[idx].account,
                                    PrimaryAccount(user), idx, o) : o \in O} :
            /\ calls' = calls \cup res.calls
            /\ IF res.raised
               THEN /\ errors' = Append(errors, ErrorEntry(e, idx))
                    /\ idx' = AfterRaise(idx, Len(all_emails))
                    /\ UNCHANGED <<actions_taken, newly_processed_ids>>
               ELSE /\ actions_taken' = Append(actions_taken, res.action)
                    /\ newly_processed_ids' = Append(newly_processed_ids, e.id)
                    /\ idx' = idx + 1
                    /\ UNCHANGED errors
    /\ UNCHANGED <<storeVars, unitVars, pc, loaded, processed_ids, all_emails,
                   classified, saved, logged>>

\* Lines 222-224.
Save ==
    /\ pc = "process"
    /\ idx > Len(all_emails)
    /\ LET ids == processed_ids \cup SeqSet(newly_processed_ids)
       IN /\ processed_ids' = ids
          /\ \E how \in SaveOutcomes, t \in Trimmed(ids) :
               /\ saved' = [how |-> how, ids |-> IF how = "raise" THEN {} ELSE t]
               /\ remote' = RemoteAfterSave(how, t, remote)
               /\ disk' \in DisksAfterSave(how, t, disk)
               /\ pc' = IF how = "raise" THEN "raised" ELSE "log"
    /\ UNCHANGED <<user, unread, cycles, prevActed, unitVars, loaded, all_emails, idx,
                   newly_processed_ids, actions_taken, errors, calls, classified, logged>>

\* _log_actions (lines 566-600) and the return of lines 193 or 229-231: the entry
\* goes to agent_logs ("remote"), to the file ("disk"), is lost to an OSError
\* the function logs ("lost"), or _ensure_dirs raises ("raise").
LogOutcomes == {"remote", "disk", "lost", "raise"}
Log ==
    /\ pc = "log"
    /\ \E how \in LogOutcomes :
         /\ logged' = how
         /\ pc' = IF how = "raise" THEN "raised" ELSE "returned"
    /\ UNCHANGED <<storeVars, unitVars, loaded, processed_ids, all_emails, idx,
                   newly_processed_ids, actions_taken, errors, calls, classified, saved>>

\* Python values of the result dict, with their type: an int is never equal
\* to a list.
PyInt(n) == [type |-> "int", val |-> n]
PyList(l) == [type |-> "list", val |-> l]

\* _build_result (lines 617-628) on the agent as it is; summary, user_id and
\* elapsed_seconds are left out.
build_result ==
    [emails_processed |-> PyInt(Len(actions_taken)),
     errors |-> PyInt(Len(errors)),
     actions |-> PyList(actions_taken)]

Next ==
    \/ StartLookupRaises(MaxCycles)
    \/ StartNotFound(MaxCycles)
    \/ StartSkipped(MaxCycles)
    \/ StartCycle(MaxCycles)
    \/ Analyze(LeanQuick, LeanDeep)
    \/ ProcessOne(LeanProc)
    \/ Save
    \/ Log

Spec == Init /\ [][Next]_vars

NextCycle ==
    \/ StartLookupRaises(1)
    \/ StartCycle(1)
    \/ Analyze(FullQuick, FullDeep)
    \/ ProcessOne(FullProc)
    \/ Save
    \/ Log

SpecCycle == InitCycle /\ [][NextCycle]_vars

(***************************************************************************)
(* SpecProcess: one cycle over a single unread message that deep analysis  *)
(* may give any priority, category and VIP flag, with every outcome of the *)
(* actuators.                                                              *)
(***************************************************************************)
\* The result objects of SpecProcess: every member of the two enums with either
\* VIP flag, and one whose category is no member of the enum.
AnyResult ==
    [priority : EmailPriority, category : EmailCategory, is_vip : BOOLEAN]
      \cup {[priority |-> "normal", category |-> BadValue, is_vip |-> TRUE]}
WideDeep ==
    {[kind |-> "ok", res |-> [m \in MsgIds |-> r]] : r \in AnyResult \cup {Missing}}
      \cup {NoDeep}

InitProcess ==
    /\ RouterIdle
    /\ DraftIdle
    /\ StoreOpIdle
    /\ FleetIdle
    /\ AuditIdle
    /\ AgentIdle
    /\ user = UserWith(<<Acct("a1", TRUE), Acct("a2", TRUE)>>)
    /\ unread \in Inboxes
    /\ Len(unread["a1"]) + Len(unread["a2"]) <= 1
    /\ remote = NoRecord
    /\ disk = NoRecord
    /\ cycles = 0
    /\ prevActed = {}

NextProcess ==
    \/ StartCycle(1)
    \/ Analyze(FullQuick, WideDeep)
    \/ ProcessOne(ProcOutcomes)
    \/ Save
    \/ Log

SpecProcess == InitProcess /\ [][NextProcess]_vars

(***************************************************************************)
(* SpecScenario: one cycle of a user with one active Gmail account whose   *)
(* mailbox lists three unread messages, with every triage and deep-analysis*)
(* response and every outcome of the actuators.                            *)
(***************************************************************************)
\* A deep-analysis result that classifies a message as spam.
SpamResult == [priority |-> "low", category |-> "spam", is_vip |-> FALSE]
ScenarioDeep ==
    {d \in DeepOutcomesOver({ActionNoVip, ActionVip, SpamResult}) :
        d.kind = "raise" \/ Missing \notin {d.res[m] : m \in MsgIds}}

\* One actuator at most fails per message; nothing else raises in
\* _process_email.
ScenarioProc == {o \in FullProc : o.exc = "none"}

InitScenario ==
    /\ RouterIdle
    /\ DraftIdle
    /\ StoreOpIdle
    /\ FleetIdle
    /\ AuditIdle
    /\ AgentIdle
    /\ user = UserWith(<<Acct("a1", TRUE)>>)
    /\ unread = [a \in Accounts |-> IF a = "a1" THEN Listing ELSE <<>>]
    /\ remote = NoRecord
    /\ disk = NoRecord
    /\ cycles = 0
    /\ prevActed = {}

NextScenario ==
    \/ StartCycle(1)
    \/ Analyze(FullQuick, ScenarioDeep)
    \/ ProcessOne(ScenarioProc)
    \/ Save
    \/ Log

SpecScenario == InitScenario /\ [][NextScenario]_vars

(***************************************************************************)
(* SpecRouter: _analyze_emails on every bounded batch and every response.  *)
(***************************************************************************)
\* The result objects SpecRouter draws from: a full result, one whose priority
\* and one whose category is no member of its enum (besides Missing).
RouterDeepEntries ==
    {[priority |-> "high", category |-> "action_required", is_vip |-> TRUE],
     [priority |-> BadValue, category |-> "action_required", is_vip |-> FALSE],
     [priority |-> "urgent", category |-> BadValue, is_vip |-> FALSE]}
RouterDeepOutcomes == DeepOutcomesOver(RouterDeepEntries)


\* Batches of fresh messages with distinct ids, here of one account.
RouterBatches ==
    {[i \in 1..Len(s) |-> EmailMessage(s[i], "a1")] :
        s \in {t \in SeqsUpTo(MsgIds, MaxRouterBatch) :
                  \A i, j \in 1..Len(t) : i # j => t[i] # t[j]}}

InitRouter ==
    /\ CycleIdle
    /\ DraftIdle
    /\ StoreOpIdle
    /\ FleetIdle
    /\ AuditIdle
    /\ rpc = "in"
    /\ rIn \in RouterBatches
    /\ rQuick \in QuickOutcomes
    /\ rDeep = NoDeep
    /\ rOut = NoOut

RouterCall ==
    /\ rpc = "in"
    /\ \E d \in RouterDeepOutcomes :
         /\ rDeep' = d
         /\ rOut' = AnalyzeEmails(rIn, rQuick, d)
    /\ rpc' = "out"
    /\ UNCHANGED <<rIn, rQuick, storeVars, agentVars, draftVars, opVars, fleetVars, auditVars>>

NextRouter == RouterCall

SpecRouter == InitRouter /\ [][NextRouter]_vars
(***************************************************************************)
(* SpecDraft: one call of email_brain.draft_reply (lines 417-563).         *)
(***************************************************************************)
\* The subject of a message as its words; "Re: Hello" is <<"Re:", "Hello">>.
Subjects == {<<"Hello">>, <<"Re:", "Hello">>, <<"RE:", "Hello">>, <<>>}

\* str.lower on the words of the model.
LowerTok(t) ==
    CASE t \in {"Re:", "RE:", "re:"} -> "re:"
      [] t = "Hello" -> "hello"
      [] OTHER -> t

\* subject.lower().startswith("re:") of line 529.
StartsWithRe(sub) == sub # <<>> /\ LowerTok(sub[1]) = "re:"

\* Lines 528-530, and the subject of the except branch (line 559).
ReplySubject(sub) == IF StartsWithRe(sub) THEN sub ELSE <<"Re:">> \o sub
ErrorSubject(sub) == <<"Re:">> \o sub

\* What a _call_opus comes to: the text of the first text block, "" when the
\* response has no text block (line 69), or an exception of the client.
OpusOutcomes == {"text", "empty", "raise"}

\* draft_body after the k-th drafting call, and the body of the except branch.
Body(k, o) == [kind |-> o, version |-> k]
ErrorBody == [kind |-> "error", version |-> 0]

\* The scores of the model, around the literal of line 486; the default of
\* evaluation.get("overall_score", 8).
Threshold == 8
DefaultScore == 8
Scores == {Threshold - 1, Threshold, Threshold + 1}

\* What an evaluator call comes to:
\*   "verdict"   a JSON object; pass and overall_score may be missing
\*   "nonjson"   json.loads raises JSONDecodeError (caught at line 520)
\*   "badshape"  the text parses, but lines 478-486 raise on the value: it is no
\*               object, or pass is false and overall_score is no number
\*   "raise"     _call_haiku raises
EvalOutcomes ==
    {v \in [kind : {"verdict"}, pass : {"true", "false", "missing"},
            has_score : BOOLEAN, score : Scores] : v.has_score \/ v.score = DefaultScore}
      \cup {[kind |-> k, pass |-> "missing", has_score |-> FALSE, score |-> DefaultScore] :
              k \in {"nonjson", "badshape", "raise"}}

\* Lines 478-479.
Overall(v) == IF v.has_score THEN v.score ELSE DefaultScore
Passed(v) == v.pass # "false"

\* Line 486.
AcceptNeedsPass(passed, overall) == passed /\ overall >= Threshold
Accept(passed, overall) == passed \/ overall >= Threshold

\* range(max_iterations) of line 469: whether round it (from 0) is run.
LoopRunsOnceMore(it, n) == it <= n
LoopContinues(it, n) == it < n

\* What the model call of _run_safety_check comes to:
\*   "object"      a JSON object; safe, flags and severity may be missing
\*   "raise"       _call_haiku raises
\*   "unparsable"  json.loads raises
\*   "nonobject"   the text parses to a true value that is no object (a non-empty
\*                 array or string, a number)
\*   "falsy"       the text parses to null, 0, "", [] or {}
SafetyMissing(k) == [kind |-> k, safe |-> "missing", flags |-> "missing", severity |-> "missing"]
SafetyOutcomes ==
    [kind : {"object"}, safe : {"true", "false", "missing"},
     flags : {"missing", "empty", "some"}, severity : {"missing", "none", "low", "high"}]
      \cup {SafetyMissing(k) : k \in {"raise", "unparsable", "nonobject", "falsy"}}

\* _run_safety_check (lines 566-592): the value it returns.
SafeDefault == [kind |-> "object", safe |-> "true", flags |-> "empty", severity |-> "none"]
SafetyFailClosed(o) ==
    IF o.kind \in {"raise", "unparsable"}
    THEN [kind |-> "object", safe |-> "false", flags |-> "some", severity |-> "high"]
    ELSE o
run_safety_check(o) == IF o.kind \in {"raise", "unparsable"} THEN SafeDefault ELSE o

\* Line 543 on a value that is an object or false, and lines 544-545.
Unsafe(r) == r.kind = "object" /\ r.safe = "false"
AttachedFlags(r) == IF r.flags = "missing" THEN "empty" ELSE r.flags
AttachedSeverity(r) == IF r.severity = "missing" THEN "low" ELSE r.severity

\* models.EmailDraft as lines 532-540 and 555-563 build it.
EmailDraft(in, sub, body, flags, severity) ==
    [original_email_id |-> in.id, to |-> SenderOf(in.id), subject |-> sub, body |-> body,
     status |-> PENDING, safety_flags |-> flags, safety_severity |-> severity]
ErrorDraft(in) == EmailDraft(in, ErrorSubject(in.subject), ErrorBody, "empty", "none")

\* The handler of lines 553-563: where draft_reply goes on an exception inside
\* its try block, and what it returns.
Reraise(in) == [pc |-> "raised", draft |-> NoDraft]
OnException(in) == [pc |-> "done", draft |-> ErrorDraft(in)]

DraftInputs ==
    [id : {"m1", "m2"}, subject : Subjects, max_iterations : 0..MaxIterations]

InitDraft ==
    /\ CycleIdle
    /\ RouterIdle
    /\ StoreOpIdle
    /\ FleetIdle
    /\ AuditIdle
    /\ dpc = "draft"
    /\ dIn \in DraftInputs
    /\ draft_body = NoBody
    /\ iteration = 0
    /\ opus_trace = <<>>
    /\ eval_trace = <<>>
    /\ safety_raw = NoSafety
    /\ draft = NoDraft

\* Line 450.
DraftInitial ==
    /\ dpc = "draft"
    /\ \E o \in OpusOutcomes :
         /\ opus_trace' = Append(opus_trace, o)
         /\ IF o = "raise"
            THEN /\ dpc' = OnException(dIn).pc
                 /\ draft' = OnException(dIn).draft
                 /\ UNCHANGED draft_body
            ELSE /\ draft_body' = Body(1, o)
                 /\ dpc' = IF LoopContinues(0, dIn.max_iterations) THEN "eval" ELSE "safety"
                 /\ UNCHANGED draft
    /\ UNCHANGED <<dIn, iteration, eval_trace, safety_raw,
                   storeVars, agentVars, routerVars, opVars, fleetVars, auditVars>>

\* Lines 470-487 and the handler of lines 520-522.
Evaluate ==
    /\ dpc = "eval"
    /\ \E o \in EvalOutcomes :
         /\ eval_trace' = Append(eval_trace, o)
         /\ CASE o.kind \in {"raise", "badshape"} ->
                   /\ dpc' = OnException(dIn).pc
                   /\ draft' = OnException(dIn).draft
              [] o.kind = "nonjson" ->
                   /\ dpc' = "safety"
                   /\ UNCHANGED draft
              [] OTHER ->
                   /\ dpc' = IF Accept(Passed(o), Overall(o)) THEN "safety" ELSE "rewrite"
                   /\ UNCHANGED draft
    /\ UNCHANGED <<dIn, draft_body, iteration, opus_trace, safety_raw,
                   storeVars, agentVars, routerVars, opVars, fleetVars, auditVars>>

\* Lines 489-518, and the next turn of the loop.
Rewrite ==
    /\ dpc = "rewrite"
    /\ \E o \in OpusOutcomes :
         /\ opus_trace' = Append(opus_trace, o)
         /\ IF o = "raise"
            THEN /\ dpc' = OnException(dIn).pc
                 /\ draft' = OnException(dIn).draft
                 /\ UNCHANGED <<draft_body, iteration>>
            ELSE /\ draft_body' = Body(draft_body.version + 1, o)
                 /\ iteration' = iteration + 1
                 /\ dpc' = IF LoopContinues(iteration + 1, dIn.max_iterations)
                           THEN "eval" ELSE "safety"
                 /\ UNCHANGED draft
    /\ UNCHANGED <<dIn, eval_trace, safety_raw, storeVars, agentVars, routerVars, opVars, fleetVars, auditVars>>

\* Lines 524-551.
SafetyCheck ==
    /\ dpc = "safety"
    /\ \E o \in SafetyOutcomes :
         /\ safety_raw' = o
         /\ LET r == run_safety_check(o)
            IN IF r.kind = "nonobject"
               THEN \* safety_result.get raises AttributeError at line 543
                    /\ dpc' = OnException(dIn).pc
                    /\ draft' = OnException(dIn).draft
               ELSE /\ dpc' = "done"
                    /\ draft' = EmailDraft(dIn, ReplySubject(dIn.subject), draft_body,
                                           IF Unsafe(r) THEN AttachedFlags(r) ELSE "empty",
                                           IF Unsafe(r) THEN AttachedSeverity(r) ELSE "none")
    /\ UNCHANGED <<dIn, draft_body, iteration, opus_trace, eval_trace,
                   storeVars, agentVars, routerVars, opVars, fleetVars, auditVars>>

NextDraft ==
    \/ DraftInitial
    \/ Evaluate
    \/ Rewrite
    \/ SafetyCheck

\* draft_reply is one synchronous function: every model call returns or raises,
\* and the function goes on.
SpecDraft == InitDraft /\ [][NextDraft]_vars /\ WF_vars(NextDraft)

(***************************************************************************)
(* SpecStore: the loads and saves of one user's ProcessedSet, cycle after  *)
(* cycle, with either backend failing at any operation.                    *)
(***************************************************************************)
InitStore ==
    /\ CycleIdle
    /\ RouterIdle
    /\ DraftIdle
    /\ StoreOpIdle
    /\ FleetIdle
    /\ AuditIdle

\* _load_processed_ids at the start of a cycle (run_cycle line 179).
StoreLoad ==
    /\ \E how \in LoadOutcomes :
         LET ids == load_processed_ids(remote, disk, how)
         IN /\ sMem' = ids
            /\ sOp' = [op |-> "load", how |-> how, added |-> {}, ret |-> ids,
                       raised |-> FALSE]
            /\ sFailed' = (sFailed \/ how # "remote")
    /\ UNCHANGED <<sOrder, user, unread, remote, disk, cycles, prevActed,
                   agentVars, routerVars, draftVars, fleetVars, auditVars>>

\* Lines 223-224 of the cycle that made the last load: the ids it processed, new
\* to the store, are merged in processing order and the set is saved.
StoreSave ==
    /\ sOp.op = "load"
    /\ \E new \in SUBSET (MsgIds \ SeqSet(sOrder)), how \in SaveOutcomes :
         LET ids == sMem \cup new
         IN \E t \in Trimmed(ids) :
              /\ sMem' = ids
              /\ sOrder' = sOrder \o ListingOf(new)
              /\ remote' = RemoteAfterSave(how, t, remote)
              /\ disk' \in DisksAfterSave(how, t, disk)
              /\ sOp' = [op |-> "save", how |-> how, added |-> new,
                         ret |-> IF how = "raise" THEN {} ELSE t,
                         raised |-> (how = "raise")]
              /\ sFailed' = (sFailed \/ how # "remote")
    /\ UNCHANGED <<user, unread, cycles, prevActed, agentVars, routerVars, draftVars,
                   fleetVars, auditVars>>

NextStore ==
    \/ StoreLoad
    \/ StoreSave

SpecStore == InitStore /\ [][NextStore]_vars

(***************************************************************************)
(* SpecFleet: the coroutines that run cycles on the server's event loop.   *)
(* AsyncIOScheduler runs the scheduled job as a task of the loop uvicorn   *)
(* serves requests on (server.py lines 53-62, scheduler.py lines 19-24),   *)
(* in one process (server.py lines 1074-1081). A coroutine keeps the loop  *)
(* until it awaits something that is not ready, or ends.                   *)
(***************************************************************************)
\* connected_accounts of a listed user: empty, none of them active, or at least
\* one active. The user at position k of the listing has id k.
AccountKinds == {"none", "inactive", "active"}
FleetLists == UNION {[1..n -> AccountKinds] : n \in 0..MaxFleetUsers}

\* Lines 655-659 of run_agent_for_all_users.
Eligible(kind) == kind = "active"

\* Whether a coroutine gives the loop away at a point of its code:
\*   "await_cycle"  the awaits of lines 636, 662 and of server.py lines
\*                  1013, 1016: a coroutine is awaited, which runs at once
\*   "cycle"        inside run_cycle (lines 158-231), which holds no await
YieldsInCycle(point) == point = "cycle"
Yields(point) == FALSE

\* The position the loop of line 654 goes on with after the except branch of
\* lines 664-669, in a listing of n users.
StopsFleetAtFailure(i, n) == n + 1
NextUserAfterFailure(i, n) == i + 1

\* The ids of the listed users that pass the tests of lines 655-659, in order.
EligibleIds ==
    SelectSeq([i \in 1..Len(fUsers) |-> i], LAMBDA i : Eligible(fUsers[i]))

\* The totals of the summary (lines 689-691).
FleetTotals(how, results, failures) ==
    [how |-> how, users_processed |-> Len(results), failures |-> failures]

\* The id a cycle adds to the ProcessedSet of its user: one new message per
\* cycle, never seen by another cycle. The sets stay below the cap.
Tag(t, u) == [task |-> t, user |-> u]

CanRun(t) == loop = t \/ (loop = None /\ tk[t].parked)

\* Coroutine t goes on as rec after a step that ended at point.
GoOn(t, rec, point, finished) ==
    /\ tk' = [tk EXCEPT ![t] = [rec EXCEPT !.parked = (~finished /\ Yields(point))]]
    /\ loop' = IF finished \/ Yields(point) THEN None ELSE t

InitFleet ==
    /\ CycleIdle
    /\ RouterIdle
    /\ DraftIdle
    /\ StoreOpIdle
    /\ fUsers \in FleetLists
    /\ loop = None
    /\ tk = [t \in Tasks |-> NoTask]
    /\ fStore = [u \in FleetIds |-> {}]
    /\ fEver = [u \in FleetIds |-> {}]
    /\ AuditIdle

\* No coroutine of the loop touches the state of the other specifications.
FleetFrame == UNCHANGED <<storeVars, agentVars, routerVars, draftVars, opVars, auditVars>>

\* The interval trigger fires, or a POST /agent/run-now arrives: the coroutine is
\* created and waits for the loop.
Fire(t) ==
    /\ tk[t].pc = "unfired"
    /\ \E u \in FleetIds :
         tk' = [tk EXCEPT ![t] = [@ EXCEPT !.pc = IF t = "now_user" THEN "lookup" ELSE "list",
                                           !.target = IF t = "now_user" THEN u ELSE 0,
                                           !.parked = TRUE]]
    /\ UNCHANGED <<fUsers, loop, fStore, fEver>>
    /\ FleetFrame

\* server.py lines 1009-1013: 404 for an unknown user, else run_agent_for_user.
RunNowLookup(t) ==
    /\ tk[t].pc = "lookup"
    /\ CanRun(t)
    /\ IF tk[t].target <= Len(fUsers)
       THEN GoOn(t, [tk[t] EXCEPT !.pc = "begin",
                                  !.attempts = Append(@, tk[t].target),
                                  !.cyc = [NoCycle EXCEPT !.user = tk[t].target]],
                 "await_cycle", FALSE)
       ELSE GoOn(t, [tk[t] EXCEPT !.pc = "done"], "none", TRUE)
    /\ UNCHANGED <<fUsers, fStore, fEver>>
    /\ FleetFrame

\* Lines 650-652: list_all_users returns the listing or raises.
FleetList(t) ==
    /\ tk[t].pc = "list"
    /\ CanRun(t)
    /\ \E ok \in BOOLEAN :
         IF ok THEN GoOn(t, [tk[t] EXCEPT !.pc = "loop", !.idx = 1], "none", FALSE)
         ELSE GoOn(t, [tk[t] EXCEPT !.pc = "raised"], "none", TRUE)
    /\ UNCHANGED <<fUsers, fStore, fEver>>
    /\ FleetFrame

\* Lines 654-662: the next user of the listing is passed over or gets its cycle;
\* after the last one the loop is left.
FleetStep(t) ==
    /\ tk[t].pc = "loop"
    /\ CanRun(t)
    /\ LET i == tk[t].idx
       IN IF i > Len(fUsers)
          THEN GoOn(t, [tk[t] EXCEPT !.pc = "summary"], "none", FALSE)
          ELSE IF ~Eligible(fUsers[i])
          THEN GoOn(t, [tk[t] EXCEPT !.idx = i + 1], "none", FALSE)
          ELSE GoOn(t, [tk[t] EXCEPT !.pc = "begin",
                                     !.attempts = Append(@, i),
                                     !.cyc = [NoCycle EXCEPT !.user = i]],
                    "await_cycle", FALSE)
    /\ UNCHANGED <<fUsers, fStore, fEver>>
    /\ FleetFrame

\* Where the caller of run_agent_for_user goes on when the cycle returned or
\* raised: the loop of line 654 (lines 663-669), or the end of the request.
CycleOver(t, raised) ==
    LET r == tk[t]
        u == r.cyc.user
    IN IF t = "now_user"
       THEN GoOn(t, [r EXCEPT !.pc = IF raised THEN "raised" ELSE "done",
                              !.results = IF raised THEN @ ELSE Append(@, u),
                              !.cyc = NoCycle], "none", TRUE)
       ELSE IF raised
       THEN GoOn(t, [r EXCEPT !.pc = "loop", !.failures = @ + 1, !.cyc = NoCycle,
                              !.idx = NextUserAfterFailure(r.idx, Len(fUsers))],
                 "none", FALSE)
       ELSE GoOn(t, [r EXCEPT !.pc = "loop", !.results = Append(@, u), !.cyc = NoCycle,
                              !.idx = r.idx + 1], "none", FALSE)

\* run_cycle up to the load of line 179: get_user raises, the user has no
\* connected account (lines 174-176), or the ProcessedSet is loaded.
CycleBegin(t) ==
    /\ tk[t].pc = "begin"
    /\ CanRun(t)
    /\ LET u == tk[t].cyc.user
       IN \E lookup \in {"ok", "raise"} :
            IF lookup = "raise" THEN CycleOver(t, TRUE)
            ELSE IF fUsers[u] = "none" THEN CycleOver(t, FALSE)
            ELSE GoOn(t, [tk[t] EXCEPT !.pc = "mid",
                                       !.cyc = [user |-> u, loaded |-> fStore[u]]],
                      "cycle", FALSE)
    /\ UNCHANGED <<fUsers, fStore, fEver>>
    /\ FleetFrame

\* run_cycle from the fetch to its end (lines 181-231):
\*   "empty"  nothing new: the entry is logged, nothing is saved
\*   "ok"     one new message is processed, the set saved, the entry logged
\*   "raise"  _save_processed_ids raises and the exception leaves run_cycle (a
\*            raise of _log_actions is the same failure to the caller)
CycleEnd(t) ==
    /\ tk[t].pc = "mid"
    /\ CanRun(t)
    /\ LET u == tk[t].cyc.user
       IN \E o \in IF fUsers[u] = "active"
                   THEN {"empty", "ok", "raise"} ELSE {"empty"} :
            /\ IF o = "ok"
               THEN /\ fStore' = [fStore EXCEPT ![u] = tk[t].cyc.loaded \cup {Tag(t, u)}]
                    /\ fEver' = [fEver EXCEPT ![u] = @ \cup {Tag(t, u)}]
               ELSE UNCHANGED <<fStore, fEver>>
            /\ CycleOver(t, o = "raise")
    /\ UNCHANGED fUsers
    /\ FleetFrame

\* Lines 671-702: the summary file is written, the OSError of the write is
\* logged ("lost"), or _ensure_dirs raises.
FleetSummary(t) ==
    /\ tk[t].pc = "summary"
    /\ CanRun(t)
    /\ \E how \in {"written", "lost", "raise"} :
         GoOn(t, [tk[t] EXCEPT !.pc = IF how = "raise" THEN "raised" ELSE "done",
                               !.summary = FleetTotals(how, tk[t].results, tk[t].failures)],
              "none", TRUE)
    /\ UNCHANGED <<fUsers, fStore, fEver>>
    /\ FleetFrame

NextFleet ==
    \/ \E t \in Tasks : Fire(t)
    \/ \E t \in Tasks : RunNowLookup(t)
    \/ \E t \in Tasks : FleetList(t)
    \/ \E t \in Tasks : FleetStep(t)
    \/ \E t \in Tasks : CycleBegin(t)
    \/ \E t \in Tasks : CycleEnd(t)
    \/ \E t \in Tasks : FleetSummary(t)

SpecFleet == InitFleet /\ [][NextFleet]_vars

(***************************************************************************)
(* SpecAudit: the Audit Log of one user over the cycles the server runs    *)
(* for it, one after the other, while the clock goes on.                   *)
(***************************************************************************)
InitAudit ==
    /\ CycleIdle
    /\ RouterIdle
    /\ DraftIdle
    /\ StoreOpIdle
    /\ FleetIdle
    /\ AuditIdle

AuditFrame ==
    UNCHANGED <<storeVars, agentVars, routerVars, draftVars, opVars, fleetVars>>

\* Time passes, between two cycles or within one.
AuditTick ==
    /\ now < MaxTicks
    /\ now' = now + 1
    /\ UNCHANGED <<cycle_no, cycle_start, agent_logs, log_files>>
    /\ AuditFrame

\* EmailAgent.__init__ (line 153): the agent of the next cycle reads the clock.
AuditBegin ==
    /\ cycle_start = <<>>
    /\ cycle_no < MaxLogCycles
    /\ cycle_no' = cycle_no + 1
    /\ cycle_start' = <<now>>
    /\ UNCHANGED <<now, agent_logs, log_files>>
    /\ AuditFrame

\* _log_actions (lines 566-600) at the end of the cycle, with the outcomes of
\* LogOutcomes. A write that failed ("lost") failed in open, before the file
\* was touched, or in json.dump, after open truncated it.
AuditLog ==
    /\ cycle_start # <<>>
    /\ LET entry == LogEntry(cycle_no, cycle_start[1])
           name == Stamp(cycle_start[1])
       IN \E how \in LogOutcomes :
            /\ agent_logs' = IF how = "remote" THEN Append(agent_logs, entry)
                             ELSE agent_logs
            /\ log_files' \in
                 CASE how = "disk" -> {[log_files EXCEPT ![name] = entry]}
                   [] how = "lost" -> {log_files, [log_files EXCEPT ![name] = Torn]}
                   [] OTHER -> {log_files}
    /\ cycle_start' = <<>>
    /\ UNCHANGED <<now, cycle_no>>
    /\ AuditFrame

NextAudit ==
    \/ AuditTick
    \/ AuditBegin
    \/ AuditLog

SpecAudit == InitAudit /\ [][NextAudit]_vars

(***************************************************************************)
(* Properties of the scan cycle.                                           *)
(***************************************************************************)
\* C1: an id that is in the ProcessedSet the cycle loaded at its start is not
\* fetched into the batch, not classified, not dispatched to any actuator and
\* gets no ActionRecord, although the mailbox lists it again.
C1_LoadedIdsAreLeftAlone ==
    /\ \A i \in 1..Len(all_emails) : all_emails[i].email.id \notin loaded
    /\ classified.ids \cap loaded = {}
    /\ \A k \in 1..Len(classified.deepCalls) :
          SeqSet(classified.deepCalls[k]) \cap loaded = {}
    /\ \A c \in calls : c.id \notin loaded
    /\ ActedIds \cap loaded = {}

\* The second cycle of a one-account user loaded {m1}, the mailbox listed m1 and
\* m2 again, and the cycle acted on m2 alone.
C1_Witness ==
    /\ cycles = 2
    /\ pc = "returned"
    /\ user = UserWith(<<Acct("a1", TRUE)>>)
    /\ unread["a1"] = <<"m1", "m2">>
    /\ loaded = {"m1"}
    /\ classified.ids = {"m2"}
    /\ ActedIds = {"m2"}

\* C2: when two cycles run in succession over the same unread messages, the
\* second one produces no ActionRecord for an id the first one produced an
\* ActionRecord for. Stated for the runs in which the store did not fail: the
\* first cycle saved to the remote row, the file was never written, and the
\* second cycle loaded the row.
C2_SecondCycleRepeatsNothing ==
    (/\ cycles = 2
     /\ pc = "process"
     /\ remote.exists
     /\ ~disk.exists
     /\ loaded = remote.ids)
       => ActedIds \cap prevActed = {}

\* C3: within one cycle no two ActionRecords carry the same message id, also
\* when two active accounts list the same id.
C3_EachIdActedOnOnce ==
    \A i, j \in 1..Len(actions_taken) :
        actions_taken[i].email_id = actions_taken[j].email_id => i = j

\* C4: run_cycle never raises, whichever collaborator fails.
C4_RunCycleNeverRaises == pc # "raised"

\* C5: each of the K messages that reach the processing loop yields exactly one
\* ActionRecord or exactly one error entry, the two lists hold K entries
\* together when the loop is over, and the loop goes on after a message whose
\* processing raised.
C5_OneOutcomePerMessage ==
    LET done == IF pc = "analyze" THEN 0
                ELSE IF pc = "process" THEN idx - 1
                ELSE Len(all_emails)
    IN /\ Len(actions_taken) + Len(errors) = done
       /\ \A k \in 1..done :
            Cardinality({i \in 1..Len(actions_taken) : actions_taken[i].idx = k})
              + Cardinality({j \in 1..Len(errors) : errors[j].idx = k}) = 1

\* A returned cycle over three messages: processing of the first raised, the two
\* after it have their ActionRecords.
C5_Witness ==
    /\ pc = "returned"
    /\ Len(all_emails) = 3
    /\ Len(errors) = 1
    /\ errors[1].idx = 1
    /\ Len(actions_taken) = 2
    /\ actions_taken[1].idx = 2
    /\ actions_taken[2].idx = 3

C7_RaisedIdIsNotAdded ==
    \A j \in 1..Len(errors) :
        /\ errors[j].email_id \notin SeqSet(newly_processed_ids)
        /\ saved.how \in {"remote", "disk"}
              => errors[j].email_id \notin (saved.ids \ loaded)

(***************************************************************************)
(* Properties of the Classification Router.                                *)
(***************************************************************************)
\* C8: for a batch of K messages with distinct ids, whatever triage and deep
\* analysis answer, _analyze_emails returns K messages, every input id exactly
\* once, and does not raise.
C8_RouterReturnsEveryIdOnce ==
    rpc = "out" =>
        /\ ~rOut.raised
        /\ Len(rOut.emails) = Len(rIn)
        /\ \A m \in IdSet(rIn) :
              Cardinality({i \in 1..Len(rOut.emails) : rOut.emails[i].id = m}) = 1

\* Three messages, the first finalized by triage and so moved behind the two
\* that went to deep analysis, whose response has no object for one of them.
C8_Witness ==
    /\ rpc = "out"
    /\ Len(rIn) = 3
    /\ rOut.skipped = <<rIn[1].id>>
    /\ rOut.emails[3].id = rIn[1].id
    /\ rDeep.kind = "ok"
    /\ rDeep.res[rIn[2].id] = Missing
    /\ rDeep.res[rIn[3].id] # Missing

C10_TriageFailureSendsAllToDeep ==
    (rpc = "out" /\ rQuick.kind \in {"failed", "malformed"} /\ rIn # <<>>) =>
        /\ rOut.deepCalls = <<Ids(rIn)>>
        /\ rOut.skipped = <<>>

\* The triage call failed on a batch of three; deep analysis answered.
C10_Witness ==
    /\ rpc = "out"
    /\ rQuick.kind = "failed"
    /\ Len(rIn) = 3
    /\ rDeep.kind = "ok"
    /\ rOut.deepCalls = <<Ids(rIn)>>
    /\ rOut.emails[1].category = "action_required"

\* C11: when the deep-analysis call on the messages triage let through fails,
\* the router makes one more deep-analysis call, over the whole original batch.
C11_DeepFailureRetriesWholeBatch ==
    (/\ rpc = "out"
     /\ rQuick.kind \in {"ok", "failed"}
     /\ rDeep.kind = "raise"
     /\ rOut.deepCalls # <<>>)
       => /\ Len(rOut.deepCalls) = 2
          /\ rOut.deepCalls[2] = Ids(rIn)

\* C26, as stated: in a parsed response every message of the analyzed batch
\* that has no result of its id gets priority normal, category fyi, is_vip false.
C26_UnmatchedMessageGetsDefaults ==
    (rpc = "out" /\ rDeep.kind = "ok" /\ rOut.deepCalls # <<>>) =>
        \A i \in 1..Len(rOut.emails) :
            LET e == rOut.emails[i]
            IN (e.id \in SeqSet(rOut.deepCalls[1]) /\ rDeep.res[e.id] = Missing)
                 => (e.priority = "normal" /\ e.category = "fyi" /\ ~e.is_vip)

\* C26 restricted to responses that hold no value outside the two enumerations
\* for a message of the analyzed batch: a message without a result
\* of its id gets the three defaults and a message with one gets the values of
\* that result, whatever the response says under other ids.
C26_ValidResponseIsMatchedById ==
    (/\ rpc = "out" /\ rDeep.kind = "ok" /\ rOut.deepCalls # <<>>
     /\ \A m \in SeqSet(rOut.deepCalls[1]) :
            rDeep.res[m].priority # BadValue /\ rDeep.res[m].category # BadValue) =>
        \A i \in 1..Len(rOut.emails) :
            LET e == rOut.emails[i]
                r == rDeep.res[e.id]
            IN e.id \in SeqSet(rOut.deepCalls[1]) =>
                 IF r = Missing
                 THEN e.priority = "normal" /\ e.category = "fyi" /\ ~e.is_vip
                 ELSE e.priority = r.priority /\ e.category = r.category
                        /\ e.is_vip = r.is_vip

\* m1 is analyzed alone while the response holds a result for m3 only.
C26_Witness ==
    /\ rpc = "out"
    /\ rDeep.kind = "ok"
    /\ rOut.deepCalls = << <<"m1">> >>
    /\ rDeep.res["m1"] = Missing
    /\ rDeep.res["m3"] = [priority |-> "high", category |-> "action_required", is_vip |-> TRUE]
    /\ Len(rOut.emails) = 1
    /\ rOut.emails[1].priority = "normal"
    /\ rOut.emails[1].category = "fyi"
    /\ ~rOut.emails[1].is_vip

(***************************************************************************)
(* Properties of draft_reply.                                              *)
(***************************************************************************)
\* C12: draft_reply never raises: whichever model call fails, it returns a
\* Draft with status pending, the id of the source message and the address of
\* its sender as recipient; the body is a generated draft or the error body,
\* and it is the error body when the first drafting call raised.
C12_DraftReplyAlwaysReturnsDraft ==
    /\ dpc # "raised"
    /\ dpc = "done" =>
          /\ draft.status = "pending"
          /\ draft.original_email_id = dIn.id
          /\ draft.to = SenderOf(dIn.id)
          /\ \/ draft.body = ErrorBody
             \/ draft.body = draft_body /\ draft_body.kind \in {"text", "empty"}
          /\ opus_trace[1] = "raise" => draft.body = ErrorBody

\* The first drafting call raised and the caller got a Draft with the error body.
C12_Witness ==
    /\ dpc = "done"
    /\ opus_trace = <<"raise">>
    /\ draft.body = ErrorBody
    /\ draft.status = "pending"
    /\ draft.original_email_id = "m2"

\* C13: when the first evaluation gives an overall score of at least 8, one
\* drafting call and one evaluation call are made and no rewrite, whatever the
\* pass flag says.
C13_HighFirstScoreStopsLoop ==
    (/\ eval_trace # <<>>
     /\ eval_trace[1].kind = "verdict"
     /\ eval_trace[1].has_score
     /\ eval_trace[1].score >= Threshold)
       => /\ Len(eval_trace) = 1
          /\ Len(opus_trace) = 1
          /\ draft_body.version = 1
          /\ dpc \in {"safety", "done"}

\* max_iterations is 2, the first verdict is pass=false with a score of 8, and
\* the first draft is returned.
C13_Witness ==
    /\ dpc = "done"
    /\ dIn.max_iterations = 2
    /\ eval_trace = <<[kind |-> "verdict", pass |-> "false", has_score |-> TRUE,
                       score |-> Threshold]>>
    /\ opus_trace = <<"text">>
    /\ draft.body = Body(1, "text")

\* C14: with max_iterations = n the loop makes at most n evaluation calls and
\* at most n + 1 drafting calls and draft_reply ends; when no call fails the
\* returned body is the output of the last drafting call made, which is the
\* (n + 1)-th when every one of the n verdicts rejected the draft.
C14_LoopIsBounded ==
    /\ [](/\ Len(eval_trace) <= dIn.max_iterations
          /\ Len(opus_trace) <= dIn.max_iterations + 1
          /\ (/\ dpc = "done"
              /\ \A k \in 1..Len(opus_trace) : opus_trace[k] # "raise"
              /\ \A k \in 1..Len(eval_trace) : eval_trace[k].kind \in {"verdict", "nonjson"}
              /\ safety_raw.kind # "nonobject")
                => /\ draft.body = Body(Len(opus_trace), opus_trace[Len(opus_trace)])
                   /\ (/\ Len(eval_trace) = dIn.max_iterations
                       /\ \A k \in 1..Len(eval_trace) :
                             /\ eval_trace[k].kind = "verdict"
                             /\ ~Accept(eval_trace[k].pass # "false",
                                        IF eval_trace[k].has_score
                                        THEN eval_trace[k].score ELSE DefaultScore))
                         => Len(opus_trace) = dIn.max_iterations + 1)
    /\ <>(dpc = "done")

\* Two rounds, both verdicts reject the draft: three drafting calls, the third
\* draft is returned without having been evaluated.
C14_Witness ==
    /\ dpc = "done"
    /\ dIn.max_iterations = 2
    /\ Len(eval_trace) = 2
    /\ \A k \in 1..2 : eval_trace[k].kind = "verdict" /\ eval_trace[k].pass = "false"
                         /\ eval_trace[k].has_score /\ eval_trace[k].score < Threshold
    /\ opus_trace = <<"text", "text", "text">>
    /\ draft.body = Body(3, "text")

\* C15: when an evaluator call fails in any way (no JSON, unexpected shape, the
\* call raises), the loop is abandoned and the returned body is the most
\* recently generated draft, not the error body.
C15_EvaluatorFailureKeepsDraft ==
    (/\ dpc = "done"
     /\ eval_trace # <<>>
     /\ eval_trace[Len(eval_trace)].kind \in {"nonjson", "badshape", "raise"}
     /\ safety_raw.kind # "nonobject")
       => /\ draft.body = draft_body
          /\ draft.body # ErrorBody

\* C16: when the model call of the safety check raises or answers with text
\* that is no JSON, the Draft is returned with the generated body, severity
\* "none" and no flags.
C16_SafetyFailureIsSafe ==
    (dpc = "done" /\ safety_raw.kind \in {"raise", "unparsable"}) =>
        /\ draft.body = draft_body
        /\ draft_body.kind \in {"text", "empty"}
        /\ draft.status = "pending"
        /\ draft.safety_severity = "none"
        /\ draft.safety_flags = "empty"

\* The safety call raised after a rewrite; the second draft is returned clean.
C16_Witness ==
    /\ dpc = "done"
    /\ safety_raw.kind = "raise"
    /\ opus_trace = <<"text", "text">>
    /\ draft.body = Body(2, "text")
    /\ draft.safety_severity = "none"

\* C17: for every result of the safety check the Draft is returned pending with
\* the body of the last generated draft, and flags or a severity other than
\* none are attached exactly when the check returned safe=false.
C17_SafetyOnlyAnnotates ==
    (dpc = "done" /\ safety_raw.kind # "none") =>
        /\ draft.status = "pending"
        /\ draft.body = draft_body
        /\ (draft.safety_flags # "empty" \/ draft.safety_severity # "none")
              <=> (safety_raw.kind = "object" /\ safety_raw.safe = "false")

\* C18: on every path the subject of the Draft is the original subject when
\* that starts with "Re:", and "Re: " followed by the original subject
\* otherwise.
C18_SubjectPrefixedOnce ==
    dpc = "done" =>
        draft.subject = IF dIn.subject # <<>> /\ dIn.subject[1] \in {"Re:", "RE:", "re:"}
                        THEN dIn.subject
                        ELSE <<"Re:">> \o dIn.subject

\* C27: a rewrite is generated only when a further evaluation round remains,
\* and a returned body that is a rewrite (the k-th drafting call, k > 1) has
\* been evaluated (at least k evaluator calls were made).
C27_EveryRewriteIsEvaluated ==
    /\ dpc = "rewrite" => iteration + 1 < dIn.max_iterations
    /\ (dpc = "done" /\ draft.body.kind \in {"text", "empty"} /\ draft.body.version > 1)
          => Len(eval_trace) >= draft.body.version

\* C28: every evaluation that parsed to a verdict with an overall score below
\* the threshold is followed by a rewrite drafting call, whatever its pass flag.
C28_LowScoreIsRewritten ==
    \A k \in 1..Len(eval_trace) :
        (eval_trace[k].kind = "verdict" /\ Overall(eval_trace[k]) < Threshold)
            => \/ Len(opus_trace) >= k + 1
               \/ (k = Len(eval_trace) /\ dpc = "rewrite")

(***************************************************************************)
(* Properties of the ProcessedSet store.                                   *)
(***************************************************************************)
\* C19: the persisted set never holds more than the cap; once more ids than the
\* cap have been merged, a load returns exactly the cap most recently added
\* ones; and a save never drops an id added by the cycle that made it.
C19_TrimKeepsMostRecent ==
    /\ Cardinality(remote.ids) <= ProcessedCap
    /\ Cardinality(disk.ids) <= ProcessedCap
    /\ (sOp.op = "load" /\ ~sFailed /\ Len(sOrder) > ProcessedCap)
          => sOp.ret = {sOrder[k] : k \in (Len(sOrder) - ProcessedCap + 1)..Len(sOrder)}
    /\ (sOp.op = "save" /\ ~sFailed /\ Cardinality(sOp.added) <= ProcessedCap)
          => sOp.added \subseteq sOp.ret

\* C20: a load is served by the row when the remote answers and by the file
\* when it does not, writes neither backend and never raises; a save whose
\* upsert succeeds leaves the file as it was; a save whose upsert fails writes
\* the file, leaves the row as it was and lets no remote error out.
C20_RemoteFailureFallsBackToFile ==
    [][ /\ sOp'.op = "load" =>
              /\ ~sOp'.raised
              /\ remote' = remote
              /\ disk' = disk
              /\ sOp'.how = "remote" => sOp'.ret = remote.ids
              /\ sOp'.how = "disk" => sOp'.ret = disk.ids
        /\ (sOp'.op = "save" /\ sOp'.how = "remote") =>
              /\ ~sOp'.raised
              /\ remote' = Record(sOp'.ret)
              /\ disk' = disk
        /\ (sOp'.op = "save" /\ sOp'.how = "disk") =>
              /\ ~sOp'.raised
              /\ disk' = Record(sOp'.ret)
              /\ remote' = remote
      ]_vars

\* The upsert succeeded while the file still holds what an earlier fallback
\* wrote to it.
C20_Witness ==
    /\ sOp.op = "save"
    /\ sOp.how = "remote"
    /\ remote = Record(sOp.ret)
    /\ disk.exists
    /\ disk.ids # {}
    /\ disk.ids # sOp.ret

(***************************************************************************)
(* Properties of _process_email.                                           *)
(***************************************************************************)
\* C24: a message with an ActionRecord had a task-creation call dispatched for
\* it exactly when its category is action_required or waiting_on or it is
\* flagged VIP.
C24_TaskIffActionableOrVip ==
    \A i \in 1..Len(actions_taken) :
        LET k == actions_taken[i].idx
            e == all_emails[k].email
        IN (\E c \in calls : c.idx = k /\ c.kind = "task")
             <=> (e.category \in {"action_required", "waiting_on"} \/ e.is_vip)

\* A VIP message classified fyi got its task.
C24_Witness ==
    /\ Len(actions_taken) = 1
    /\ all_emails[1].email.category = "fyi"
    /\ all_emails[1].email.is_vip
    /\ \E c \in calls : c.kind = "task" /\ c.id = all_emails[1].email.id
    /\ "task_created" \in SeqSet(actions_taken[1].actions)

\* C25: a message with an ActionRecord had the Draft Engine called for it
\* exactly when its category is action_required and its sender, lower-cased, is
\* a lower-cased entry of the allowlist.
C25_DraftIffActionRequiredAndAllowlisted ==
    \A i \in 1..Len(actions_taken) :
        LET k == actions_taken[i].idx
            e == all_emails[k].email
        IN (\E c \in calls : c.idx = k /\ c.kind = "draft")
             <=> /\ e.category = "action_required"
                 /\ \E c \in auto_send_contacts : Lower(c) = Lower(SenderOf(e.id))

\* The sender Bob@x.io matches the entry BOB@X.IO; a VIP urgent message of the
\* same sender in another category would not.
C25_Witness ==
    /\ Len(actions_taken) = 1
    /\ all_emails[1].email.id = "m1"
    /\ all_emails[1].email.category = "action_required"
    /\ ~all_emails[1].email.is_vip
    /\ SenderOf("m1") \notin auto_send_contacts
    /\ "draft_created" \in SeqSet(actions_taken[1].actions)

(***************************************************************************)
(* Properties of the ends of run_cycle.                                    *)
(***************************************************************************)
\* C23: a cycle of an unknown user ends at once with the 'unknown user' result,
\* nothing saved and nothing logged; a cycle of a known user without an active
\* account (none connected, or none of the connected ones active) ends with the
\* 'skipped' result. Cycles whose user lookup itself raised are left out.
C23_AbsenceGivesDistinctResult ==
    (cycles > 0 /\ ~(pc = "raised" /\ saved = NoSave /\ logged = "none")) =>
        /\ ~user.found => (pc = "not_found" /\ saved = NoSave /\ logged = "none")
        /\ (user.found /\ ActiveNames(user) = {}) => pc = "skipped"

\* C29: a cycle of a user with an active account that found no new message on
\* any of them and returned has persisted the ProcessedSet and written its audit entry.
C29_EmptyCycleStillPersists ==
    (/\ pc = "returned"
     /\ ActiveNames(user) # {}
     /\ all_emails = <<>> /\ classified = NoClassified) =>
        /\ saved.how \in {"remote", "disk"}
        /\ logged # "none"

\* C30: a cycle of a resolved user with a connected account that has ended, by
\* returning or raising, has its audit entry written, whatever failed before the
\* audit step. Left out are the cycles whose user lookup raised and those whose
\* audit write itself failed on both backends.
C30_EveryCycleIsAudited ==
    (/\ cycles > 0
     /\ pc \in {"returned", "raised"}
     /\ user.found /\ user.accounts # <<>>
     /\ ~(pc = "raised" /\ saved = NoSave /\ logged = "none")
     /\ logged \notin {"lost", "raise"})
        => logged \in {"remote", "disk"}

C22_NoTwoCyclesOfOneUser ==
    /\ \A t1, t2 \in Tasks :
          (t1 # t2 /\ tk[t1].pc = "mid" /\ tk[t2].pc = "mid")
              => tk[t1].cyc.user # tk[t2].cyc.user
    /\ \A u \in FleetIds : fEver[u] \subseteq fStore[u]

\* A run-now request for user 1 waits for the loop while the scheduled run is
\* inside the cycle of user 1, which loaded what a manual fleet run had saved.
C22_Witness ==
    /\ tk["sched"].pc = "mid"
    /\ tk["sched"].cyc.user = 1
    /\ tk["sched"].cyc.loaded = {Tag("now_all", 1)}
    /\ tk["now_user"].pc = "lookup"
    /\ tk["now_user"].target = 1
    /\ tk["now_user"].parked
    /\ loop = "sched"

(***************************************************************************)
(* Properties of the Audit Log and of the ActionRecords.                   *)
(***************************************************************************)
\* C31: once _log_actions was called the cycle has returned its result, the
\* entry being in agent_logs, in the local file, or lost to a logged error.
C31_LogWriteNeverRaises ==
    logged # "none" => (pc = "returned" /\ logged \in {"remote", "disk", "lost"})

\* C34: every label call of a cycle is made against the account the labelled
\* message was fetched from.
C34_LabelGoesToSourceAccount ==
    \A c \in calls :
        c.kind \in {"label", "vip_label"} => c.account = all_emails[c.idx].email.src

\* C36: a sub-action of an ActionRecord stands for an actuator call of that
\* message that succeeded: 'labeled' for a label call that returned success,
\* 'task_created' for a task call that created a task, 'draft_created' for a
\* draft that was generated and written.
C36_SubActionsReflectEffects ==
    \A i \in 1..Len(actions_taken) :
        LET a == actions_taken[i]
            Did(kind) == \E c \in calls : c.idx = a.idx /\ c.kind = kind /\ c.res = "ok"
        IN /\ "labeled" \in SeqSet(a.actions) => Did("label")
           /\ "task_created" \in SeqSet(a.actions) => Did("task")
           /\ "draft_created" \in SeqSet(a.actions) => Did("draft")

\* C35: the load that follows a completed save returns the ids that save wrote,
\* whichever backend took the save and whichever backend answers the load.
C35_LoadReturnsLastSave ==
    [][ (/\ sOp.op = "save"
         /\ ~sOp.raised
         /\ sOp'.op = "load"
         /\ sOp'.how \in {"remote", "disk"}) => sOp'.ret = sOp.ret ]_vars

\* C37: a message the classification left without priority, category and VIP
\* flag has no actuator call made for it; once processed without an exception
\* it has an ActionRecord with priority and category unknown and no sub-action;
\* and once the cycle has saved, its id is in the persisted ProcessedSet, which
\* is what keeps a later cycle from fetching and classifying it again.
C37_UnclassifiedIsRecordedAndRemembered ==
    \A i \in 1..Len(all_emails) :
        LET e == all_emails[i].email
        IN (/\ pc \in {"process", "log", "returned"}
            /\ e.category = None /\ e.priority = None /\ ~e.is_vip)
             => /\ \A c \in calls : c.idx # i
                /\ (i < idx /\ \A k \in 1..Len(errors) : errors[k].idx # i)
                     => /\ \E k \in 1..Len(actions_taken) :
                              actions_taken[k] =
                                [email_id |-> e.id, idx |-> i, priority |-> "unknown",
                                 category |-> "unknown", is_vip |-> FALSE,
                                 actions |-> <<>>]
                        /\ e.id \in SeqSet(newly_processed_ids)
                        /\ pc \in {"log", "returned"} => e.id \in saved.ids

C33_ScenarioResult ==
    LET r == build_result
        E(i) == all_emails[i].email
    IN (/\ pc = "returned"
        /\ Len(all_emails) = 3
        /\ \E i, j, k \in 1..3 :
              /\ {i, j, k} = 1..3
              /\ E(i).category = "spam" /\ ~E(i).is_vip
              /\ E(j).category = "action_required" /\ ~E(j).is_vip
              /\ E(k).category = "action_required" /\ E(k).is_vip
        /\ \A i \in 1..3 :
              E(i).category = "action_required" =>
                  Lower(SenderOf(E(i).id)) \notin {Lower(c) : c \in auto_send_contacts}
        /\ \A c \in calls : c.res = "ok")
         => /\ r.actions.type = "list"
            /\ Len(r.actions.val) = 3
            /\ \A n \in 1..3 :
                  LET a == r.actions.val[n]
                  IN /\ a.email_id = E(n).id
                     /\ a.category = E(n).category
                     /\ a.actions = IF a.category = "spam" THEN <<"labeled">>
                                    ELSE <<"labeled", "task_created">>
            /\ \A c \in calls : c.kind # "draft"
            /\ r.errors.type = "list"
            /\ r.errors.val = <<>>

(***************************************************************************)
(* Properties of the Audit Log over successive cycles.                     *)
(***************************************************************************)
\* C32: no step removes or changes a row of agent_logs, and no step changes or
\* removes a log file that holds the entry of a cycle.
C32_AuditLogIsAppendOnly ==
    [][ /\ Len(agent_logs') >= Len(agent_logs)
        /\ SubSeq(agent_logs', 1, Len(agent_logs)) = agent_logs
        /\ \A s \in Stamps :
              log_files[s].kind = "entry" => log_files'[s] = log_files[s] ]_vars
=============================================================================
